---- MODULE Spec2Model ----
(***************************************************************************)
(* Model of clients/rust/src/main.rs, the Kuberhealthy example check       *)
(* client: read KH_REPORTING_URL and KH_RUN_UUID, decide the verdict from  *)
(* the command line, build a Report, POST it once, exit.                   *)
(*                                                                         *)
(* One behaviour of the model is one invocation of the process.  The       *)
(* inputs (the two environment variables, the argument vector) are chosen  *)
(* in Init; the answer of the endpoint is chosen when the pending POST     *)
(* returns.  `sent` records every request that send() put on the network.  *)
(* The model stops at the level of the calls main makes: what the HTTP     *)
(* client does below send() (connection handling, following redirects) is  *)
(* summarised by the single result send() returns.                         *)
(***************************************************************************)
EXTENDS Integers, Sequences, FiniteSets, TLC

VARIABLES envUrl, envUuid, args, pc, reporting_url, run_uuid, ok, report,
          client, builder, sent, result, exit

vars == <<envUrl, envUuid, args, pc, reporting_url, run_uuid, ok, report,
          client, builder, sent, result, exit>>

inputs == <<envUrl, envUuid, args>>

\* ------------------------------------------------------------------ bounds
\* Longest argument vector explored (argv[0] included).
MaxArgs == 2

\* ------------------------------------------------------------ value space
\* Option<T>: None is the empty sequence, Some(v) a one-element sequence.
None == <<>>
Some(v) == <<v>>

\* Result<T, E>.
Ok(v) == [ok |-> TRUE, val |-> v]
Err(e) == [ok |-> FALSE, err |-> e]

\* An environment variable or argument that is absent / not valid Unicode.
Unset == "<unset>"
NotUnicode == "<not-unicode>"

\* Values KH_REPORTING_URL may hold: absent, not Unicode, empty, a relative
\* reference, a URL without host, a non-HTTP URL, and two HTTP URLs.
EnvUrlValues ==
    {Unset, NotUnicode, "", "kh.svc/report", "data:report",
     "ftp://kh.svc/report", "http://kh.svc", "http://kh.svc/report"}

\* Values KH_RUN_UUID may hold: absent, not Unicode, empty, two identifiers,
\* and one holding a line feed (not a legal header value).
EnvUuidValues == {Unset, NotUnicode, "", "run-1", "run-2", "run\n1"}

\* Command-line arguments, argv[0] included.
ArgValues == {"check", "--fail", "--failfast", NotUnicode}

ArgVectors == UNION {[1..n -> ArgValues] : n \in 0..MaxArgs}

\* Results send() can return once the request is on the network: a transport
\* error, or a response with its final status.
TransportErrors == {"connection refused", "timeout", "dns failure"}
Statuses == {200, 204, 300, 304, 400, 404, 500, 503}
Outcomes == {Err(e) : e \in TransportErrors} \cup {Ok(s) : s \in Statuses}

\* ------------------------------------------------------- library calls
\* std::env::var: Err when the variable is absent or not valid Unicode; an
\* empty value is a present value.
EnvVar(v) == IF v \in {Unset, NotUnicode} THEN Err(v) ELSE Ok(v)

\* std::env::args().find(|a| a == "--fail"): the iterator yields the
\* arguments in order and panics on one that is not valid Unicode; find stops
\* at the first match and does not look at the arguments after it.
RECURSIVE FindFrom(_, _)
FindFrom(a, i) ==
    IF i > Len(a) THEN "none"
    ELSE IF a[i] = NotUnicode THEN "panic"
    ELSE IF a[i] = "--fail" THEN "found"
    ELSE FindFrom(a, i + 1)

FindFail(a) == FindFrom(a, 1)

\* Variant of UrlParse: a value without a scheme is resolved against a default
\* base instead of being refused.
UrlParseWithBase(s) ==
    CASE s = "http://kh.svc/report" ->
             Ok([scheme |-> "http", host |-> "kh.svc", path |-> "/report"])
      [] s = "http://kh.svc" ->
             Ok([scheme |-> "http", host |-> "kh.svc", path |-> "/"])
      [] s = "ftp://kh.svc/report" ->
             Ok([scheme |-> "ftp", host |-> "kh.svc", path |-> "/report"])
      [] s = "data:report" ->
             Ok([scheme |-> "data", host |-> "", path |-> "report"])
      [] OTHER -> Ok([scheme |-> "http", host |-> "localhost", path |-> "/"])

\* Url::parse on the values of EnvUrlValues: a value without a scheme is a
\* relative reference and does not parse; an HTTP URL without a path gets the
\* path "/".
UrlParse(s) ==
    CASE s = "http://kh.svc/report" ->
             Ok([scheme |-> "http", host |-> "kh.svc", path |-> "/report"])
      [] s = "http://kh.svc" ->
             Ok([scheme |-> "http", host |-> "kh.svc", path |-> "/"])
      [] s = "ftp://kh.svc/report" ->
             Ok([scheme |-> "ftp", host |-> "kh.svc", path |-> "/report"])
      [] s = "data:report" ->
             Ok([scheme |-> "data", host |-> "", path |-> "report"])
      [] OTHER -> Err("relative URL without a base")

\* IntoUrl for &String: parse, then refuse a URL that has no host.
IntoUrl(s) ==
    LET u == UrlParse(s)
    IN  IF ~u.ok THEN u
        ELSE IF u.val.host = "" THEN Err("URL scheme is not allowed")
        ELSE u

\* HeaderValue::try_from(String): refuses control characters (a line feed
\* among them); the empty string is a legal value.
LegalHeaderValue(s) == s # "run\n1"

\* Variant of ToJson: the serde renames are missing, the members go out under
\* the Rust field names.
ToJsonFieldNames(r) == << <<"errors", r.errors>>, <<"ok", r.ok>> >>

\* serde_json on Report: the members in field order under their renamed keys.
ToJson(r) == << <<"Errors", r.errors>>, <<"OK", r.ok>> >>

\* The JSON object a body deserializes to: member name -> value.
FromJson(body) ==
    [k \in {body[i][1] : i \in 1..Len(body)} |->
        body[CHOOSE i \in 1..Len(body) : body[i][1] = k][2]]

\* RequestBuilder: a request, or the first error met while building it.
Post(url) ==
    LET u == IntoUrl(url)
    IN  IF u.ok
        THEN Ok([method |-> "POST", url |-> u.val, headers |-> <<>>,
                 body |-> None])
        ELSE Err(u.err)

\* Variant of Header: name and value change places.
HeaderSwapped(b, name, value) ==
    IF ~b.ok THEN b
    ELSE Ok([b.val EXCEPT !.headers = Append(@, <<value, name>>)])

Header(b, name, value) ==
    IF ~b.ok THEN b
    ELSE IF LegalHeaderValue(value)
         THEN Ok([b.val EXCEPT !.headers = Append(@, <<name, value>>)])
         ELSE Err("invalid header value")

Json(b, r) ==
    IF ~b.ok THEN b
    ELSE Ok([b.val EXCEPT
                !.headers = Append(@, <<"content-type", "application/json">>),
                !.body = Some(ToJson(r))])

\* Variant of ErrorForStatus: only client errors (400..499) are errors.
ErrorForStatusClientOnly(status) ==
    IF status >= 400 /\ status < 500 THEN Err(status) ELSE Ok(status)

\* Response::error_for_status: an error for a client or server error status
\* (400..599), the response itself for every other status.
ErrorForStatus(status) ==
    IF status >= 400 /\ status < 600 THEN Err(status) ELSE Ok(status)

\* The client only speaks http and https.
SchemeAllowed(req) == req.url.scheme \in {"http", "https"}

\* ------------------------------------------------------- process endings
\* A panic (expect on Err, a non-Unicode argument) ends the process with 101.
Panic ==
    /\ pc' = "done"
    /\ exit' = Some(101)

\* main returning Err ends the process with 1.
ReturnErr ==
    /\ pc' = "done"
    /\ exit' = Some(1)

\* main returning Ok(()) ends the process with 0.
ReturnOk ==
    /\ pc' = "done"
    /\ exit' = Some(0)

\* --------------------------------------------------------------- actions
\* let reporting_url = env::var("KH_REPORTING_URL").expect(..)
ResolveUrl ==
    /\ pc = "resolve_url"
    /\ IF EnvVar(envUrl).ok
       THEN /\ reporting_url' = Some(EnvVar(envUrl).val)
            /\ pc' = "resolve_uuid"
            /\ UNCHANGED exit
       ELSE /\ Panic
            /\ UNCHANGED reporting_url
    /\ UNCHANGED <<inputs, run_uuid, ok, report, client, builder, sent, result>>

\* let run_uuid = env::var("KH_RUN_UUID").expect(..)
ResolveUuid ==
    /\ pc = "resolve_uuid"
    /\ IF EnvVar(envUuid).ok
       THEN /\ run_uuid' = Some(EnvVar(envUuid).val)
            /\ pc' = "check"
            /\ UNCHANGED exit
       ELSE /\ Panic
            /\ UNCHANGED run_uuid
    /\ UNCHANGED <<inputs, reporting_url, ok, report, client, builder, sent,
                   result>>

\* let ok = env::args().find(|a| a == "--fail").is_none()
Check ==
    /\ pc = "check"
    /\ IF FindFail(args) = "panic"
       THEN /\ Panic
            /\ UNCHANGED ok
       ELSE /\ ok' = Some(FindFail(args) = "none")
            /\ pc' = "report"
            /\ UNCHANGED exit
    /\ UNCHANGED <<inputs, reporting_url, run_uuid, report, client, builder,
                   sent, result>>

\* Variant of BuildReport: the failing branch forgets its error message.
BuildReportNoMessage ==
    /\ pc = "report"
    /\ report' = IF ok[1]
                 THEN Some([errors |-> <<>>, ok |-> TRUE])
                 ELSE Some([errors |-> <<>>, ok |-> FALSE])
    /\ pc' = "client"
    /\ UNCHANGED <<inputs, reporting_url, run_uuid, ok, client, builder, sent,
                   result, exit>>

\* let report = if ok { .. } else { .. }
BuildReport ==
    /\ pc = "report"
    /\ report' = IF ok[1]
                 THEN Some([errors |-> <<>>, ok |-> TRUE])
                 ELSE Some([errors |-> <<"example failure">>, ok |-> FALSE])
    /\ pc' = "client"
    /\ UNCHANGED <<inputs, reporting_url, run_uuid, ok, client, builder, sent,
                   result, exit>>

\* Client::new()
ClientNew ==
    /\ pc = "client"
    /\ client' = Some("client")
    /\ pc' = "request"
    /\ UNCHANGED <<inputs, reporting_url, run_uuid, ok, report, builder, sent,
                   result, exit>>

\* Client::new() panics when the client cannot be set up (TLS backend,
\* resolver configuration).
ClientNewPanics ==
    /\ pc = "client"
    /\ Panic
    /\ UNCHANGED <<inputs, reporting_url, run_uuid, ok, report, client,
                   builder, sent, result>>

\* .post(&reporting_url).header("kh-run-uuid", run_uuid).json(&report)
BuildRequest ==
    /\ pc = "request"
    /\ builder' = Some(Json(Header(Post(reporting_url[1]), "kh-run-uuid",
                                   run_uuid[1]), report[1]))
    /\ pc' = "send"
    /\ UNCHANGED <<inputs, reporting_url, run_uuid, ok, report, client, sent,
                   result, exit>>

\* .send(): a builder error or a refused scheme is returned at once, without
\* a network call; otherwise the request goes out and the call blocks.
Send ==
    /\ pc = "send"
    /\ IF ~builder[1].ok
       THEN /\ result' = Some(Err(builder[1].err))
            /\ pc' = "send_result"
            /\ UNCHANGED sent
       ELSE IF ~SchemeAllowed(builder[1].val)
       THEN /\ result' = Some(Err("URL scheme is not allowed"))
            /\ pc' = "send_result"
            /\ UNCHANGED sent
       ELSE /\ sent' = Append(sent, builder[1].val)
            /\ pc' = "awaiting"
            /\ UNCHANGED result
    /\ UNCHANGED <<inputs, reporting_url, run_uuid, ok, report, client,
                   builder, exit>>

\* The pending POST returns: a transport error or a response.
Respond ==
    /\ pc = "awaiting"
    /\ \E o \in Outcomes : result' = Some(o)
    /\ pc' = "send_result"
    /\ UNCHANGED <<inputs, reporting_url, run_uuid, ok, report, client,
                   builder, sent, exit>>

\* Variant of SendResult: a failed send is tried again until two requests have
\* gone out.
SendResultRetry ==
    /\ pc = "send_result"
    /\ IF result[1].ok
       THEN /\ pc' = "status"
            /\ UNCHANGED <<exit, result>>
       ELSE IF Len(sent) < 2
       THEN /\ pc' = "send"
            /\ result' = None
            /\ UNCHANGED exit
       ELSE /\ ReturnErr
            /\ UNCHANGED result
    /\ UNCHANGED <<inputs, reporting_url, run_uuid, ok, report, client,
                   builder, sent>>

\* .send()? : an Err leaves main.
SendResult ==
    /\ pc = "send_result"
    /\ IF result[1].ok
       THEN /\ pc' = "status"
            /\ UNCHANGED exit
       ELSE ReturnErr
    /\ UNCHANGED <<inputs, reporting_url, run_uuid, ok, report, client,
                   builder, sent, result>>

\* .error_for_status()?; Ok(())
StatusResult ==
    /\ pc = "status"
    /\ IF ErrorForStatus(result[1].val).ok THEN ReturnOk ELSE ReturnErr
    /\ UNCHANGED <<inputs, reporting_url, run_uuid, ok, report, client,
                   builder, sent, result>>

Init ==
    /\ envUrl \in EnvUrlValues
    /\ envUuid \in EnvUuidValues
    /\ args \in ArgVectors
    /\ pc = "resolve_url"
    /\ reporting_url = None
    /\ run_uuid = None
    /\ ok = None
    /\ report = None
    /\ client = None
    /\ builder = None
    /\ sent = <<>>
    /\ result = None
    /\ exit = None

Next ==
    \/ ResolveUrl
    \/ ResolveUuid
    \/ Check
    \/ BuildReport
    \/ ClientNew
    \/ ClientNewPanics
    \/ BuildRequest
    \/ Send
    \/ Respond
    \/ SendResult
    \/ StatusResult

Spec == Init /\ [][Next]_vars

\* The steps of main run one after the other without waiting on anything but
\* the pending POST, which is taken to return.
FairSpec == Spec /\ WF_vars(Next)

\* ---------------------------------------------------------------- claims
Done == pc = "done"

\* A value the run context can be resolved from: present, Unicode, non-empty.
Resolves(v) == v \notin {Unset, NotUnicode, ""}

\* The request builds and may go out: the URL parses to an http(s) URL with
\* a host and the run identifier is a legal header value.
RequestBuilds ==
    /\ EnvVar(envUrl).ok
    /\ EnvVar(envUuid).ok
    /\ IntoUrl(envUrl).ok
    /\ IntoUrl(envUrl).val.scheme \in {"http", "https"}
    /\ LegalHeaderValue(envUuid)

Is2xx(status) == status >= 200 /\ status < 300

Delivered == result # None /\ result[1].ok /\ Is2xx(result[1].val)

HasFail == \E i \in 1..Len(args) : args[i] = "--fail"

C2_NoUrlNoNetwork ==
    envUrl \in {Unset, ""} =>
        /\ sent = <<>>
        /\ Done => exit # None /\ exit[1] # 0

\* C2 witness: KH_REPORTING_URL is empty, KH_RUN_UUID is set, --fail is
\* passed; send() returned the builder's error and the process ended with 1.
C2_Witness ==
    /\ Done
    /\ envUrl = ""
    /\ envUuid = "run-1"
    /\ HasFail
    /\ result = Some(Err("relative URL without a base"))
    /\ sent = <<>>
    /\ exit = Some(1)

\* C3, as stated: with KH_RUN_UUID absent or empty and KH_REPORTING_URL a
\* valid URL, no request goes out and the process ends with a non-zero status.
C3_NoUuidNoNetwork ==
    (/\ envUuid \in {Unset, ""}
     /\ IntoUrl(envUrl).ok
     /\ IntoUrl(envUrl).val.scheme \in {"http", "https"}) =>
        /\ sent = <<>>
        /\ Done => exit # None /\ exit[1] # 0

\* C4, as stated: exit status 0 only if the POST was answered with a 2xx
\* status; every other status and every transport error ends non-zero.
C4_ExitZeroOnly2xx ==
    Done =>
        /\ exit = Some(0) => Delivered
        /\ (result # None /\ ~Delivered) => exit # Some(0)

\* C5: a passing verdict does not turn a failed delivery into exit 0: with
\* the check passed, an answer of 500 or a refused connection ends non-zero.
C5_FailedDeliveryNonZero ==
    (/\ Done
     /\ report # None
     /\ report[1].ok
     /\ result \in {Some(Ok(500)), Some(Err("connection refused"))}) =>
        exit # None /\ exit[1] # 0

\* C5 witness: the check passed, the endpoint answered 500, the exit is 1.
C5_Witness ==
    /\ Done
    /\ report # None
    /\ report[1].ok
    /\ Len(sent) = 1
    /\ result = Some(Ok(500))
    /\ exit = Some(1)

\* C6: the body of every request sent deserializes to {OK: true, Errors: []}
\* without --fail and to {OK: false, Errors: ["example failure"]} with it,
\* and a delivered report ends with exit 0 whatever the verdict.
C6_BodyFromFailFlag ==
    /\ \A i \in 1..Len(sent) :
          /\ sent[i].body # None
          /\ FromJson(sent[i].body[1]) =
                IF HasFail
                THEN [OK |-> FALSE, Errors |-> <<"example failure">>]
                ELSE [OK |-> TRUE, Errors |-> <<>>]
    /\ Done /\ Delivered => exit = Some(0)

\* C6 witness: --fail was passed, the failing report was delivered and the
\* process ended with 0.
C6_Witness ==
    /\ Done
    /\ HasFail
    /\ Len(sent) = 1
    /\ ~report[1].ok
    /\ result = Some(Ok(200))
    /\ exit = Some(0)

\* The headers of request `req` named `name`, in order.
HeadersNamed(req, name) ==
    SelectSeq(req.headers, LAMBDA h : h[1] = name)

C8_OkIffNoErrors ==
    /\ report # None => (report[1].ok <=> report[1].errors = <<>>)
    /\ \A i \in 1..Len(sent) :
          FromJson(sent[i].body[1])["OK"] <=>
              FromJson(sent[i].body[1])["Errors"] = <<>>

\* C8 witness: a failing report exists and has gone out.
C8_Witness ==
    /\ report # None
    /\ ~report[1].ok
    /\ report[1].errors # <<>>
    /\ Len(sent) = 1

\* C9, as stated: once both variables are read, a failure while evaluating
\* the arguments does not end the process before the request is built and
\* send() is called: it yields a report with ok = false and a non-empty
\* errors list.
C9_CheckFailureCaptured ==
    (/\ Done
     /\ reporting_url # None
     /\ run_uuid # None
     /\ FindFail(args) = "panic") =>
        /\ report # None
        /\ ~report[1].ok
        /\ report[1].errors # <<>>
        /\ result # None

\* C10: every invocation terminates once the pending POST returns: no state
\* before the end is stuck, the end is reached with an exit status, and
\* exit 0 comes only after resolve, check, serialize and deliver.
C10_Terminates ==
    /\ [](~Done => ENABLED Next)
    /\ <>(Done /\ exit # None)
    /\ [](exit = Some(0) =>
            /\ reporting_url # None
            /\ run_uuid # None
            /\ report # None
            /\ builder # None
            /\ Len(sent) = 1
            /\ result # None)

\* C10 witness: the full sequence ran and the process ended with 0.
C10_Witness ==
    /\ Done
    /\ exit = Some(0)
    /\ ok = Some(TRUE)
    /\ Len(sent) = 1
====
